---- MODULE Spec2Model ----
(***************************************************************************)
(* Step Counter API (step_counter_app/backend/main.py): the conversion     *)
(* function, the five request handlers and the two tables they work on.    *)
(*                                                                         *)
(* Python floats are modelled as exact rationals <<n, d>> in lowest terms  *)
(* (d > 0), so every product, quotient and sum is computed, not assumed;   *)
(* IEEE rounding is the one thing abstracted ("within floating-point       *)
(* tolerance").                                                            *)
(***************************************************************************)
EXTENDS Integers, Sequences, FiniteSets, TLC

VARIABLES records, goals, clock, resp, sess

vars == <<records, goals, clock, resp, sess>>

(* ------------------------------ bounds -------------------------------- *)
MaxClock == 4
MaxLimit == 3
MaxSteps == 10000

MaxRows == 6
MaxConcAdds == 3

StepInputs == {-10000, 10000, 400000}
ListInputs == {10000}
ConcInputs == {10000}
Workers == {1, 2}

(* ------------------------- float arithmetic --------------------------- *)
Abs(x) == IF x < 0 THEN -x ELSE x

RECURSIVE GCD(_, _)
GCD(a, b) == IF b = 0 THEN a ELSE GCD(b, a % b)

Norm(n, d) ==
    LET sn == IF d < 0 THEN -n ELSE n
        sd == Abs(d)
        g  == GCD(Abs(sn), sd)
    IN  <<sn \div g, sd \div g>>

Float(i) == <<i, 1>>

\* Cross-reduced before multiplying, so that intermediate products stay small.
FMul(a, b) ==
    LET g1 == GCD(Abs(a[1]), b[2])
        g2 == GCD(Abs(b[1]), a[2])
    IN  Norm((a[1] \div g1) * (b[1] \div g2), (a[2] \div g2) * (b[2] \div g1))

FDiv(a, b) == FMul(a, Norm(b[2], b[1]))

FAdd(a, b) ==
    LET l == (a[2] \div GCD(a[2], b[2])) * b[2]
    IN  Norm(a[1] * (l \div a[2]) + b[1] * (l \div b[2]), l)

FSub(a, b) == FAdd(a, <<-b[1], b[2]>>)

FLeq(a, b) == a[1] * b[2] <= b[1] * a[2]

FMin(a, b) == IF FLeq(b, a) THEN b ELSE a

FMax(a, b) == IF FLeq(a, b) THEN b ELSE a

(* ------------------------ conversion function ------------------------- *)
step_length_m == <<381, 500>>
walking_speed_kmh == 5
calories_per_hour == 700

\* Faulty variant: multiplies by the walking speed instead of dividing by it.
calculate_distance_and_calories_wrong_speed(steps) ==
    LET distance_m  == FMul(Float(steps), step_length_m)
        distance_km == FDiv(distance_m, Float(1000))
        time_hours  == FMul(distance_km, Float(walking_speed_kmh))
        calories_burned == FMul(time_hours, Float(calories_per_hour))
    IN  <<distance_km, calories_burned>>

calculate_distance_and_calories(steps) ==
    LET distance_m  == FMul(Float(steps), step_length_m)
        distance_km == FDiv(distance_m, Float(1000))
        time_hours  == FDiv(distance_km, Float(walking_speed_kmh))
        calories_burned == FMul(time_hours, Float(calories_per_hour))
    IN  <<distance_km, calories_burned>>

(* --------------------------- the two tables --------------------------- *)
default_target_weight_loss_kg == 5
default_total_calories_needed == 38500

\* StepRecord(steps=..., distance_km=..., calories_burned=...): id and created_at
\* are assigned by the store on insert.
NewStepId(recs) ==
    IF recs = {} THEN 1
    ELSE (CHOOSE i \in {r.id : r \in recs} : \A r \in recs : r.id <= i) + 1

StepRecord(recs, clk, steps, distance_km, calories_burned) ==
    [id |-> NewStepId(recs), steps |-> steps, distance_km |-> distance_km,
     calories_burned |-> calories_burned, created_at |-> clk]

\* WeightGoal(...): every column not given takes its default.
WeightGoal(gls, clk, calories_burned_so_far) ==
    [id |-> Len(gls) + 1,
     target_weight_loss_kg |-> Float(default_target_weight_loss_kg),
     total_calories_needed |-> Float(default_total_calories_needed),
     calories_burned_so_far |-> calories_burned_so_far,
     created_at |-> clk]

\* db.query(WeightGoal).first(): the first row or None, as a set of at most one row.
FirstGoal(gls) == IF gls = <<>> THEN {} ELSE {gls[1]}

\* UPDATE of the one row the session holds.
UpdateGoal(gls, id, so_far) ==
    [i \in DOMAIN gls |->
        IF gls[i].id = id THEN [gls[i] EXCEPT !.calories_burned_so_far = so_far]
        ELSE gls[i]]

\* func.sum(column): NULL (the empty set) over no rows, else the one sum.
RECURSIVE SumInt(_)
SumInt(vals) ==
    IF vals = {} THEN 0
    ELSE LET v == CHOOSE x \in vals : TRUE IN v[2] + SumInt(vals \ {v})

RECURSIVE SumFloat(_)
SumFloat(vals) ==
    IF vals = {} THEN Float(0)
    ELSE LET v == CHOOSE x \in vals : TRUE IN FAdd(v[2], SumFloat(vals \ {v}))

SqlSumSteps(recs) ==
    IF recs = {} THEN {} ELSE {SumInt({<<r.id, r.steps>> : r \in recs})}

SqlSumDistance(recs) ==
    IF recs = {} THEN {} ELSE {SumFloat({<<r.id, r.distance_km>> : r \in recs})}

SqlSumCalories(recs) ==
    IF recs = {} THEN {} ELSE {SumFloat({<<r.id, r.calories_burned>> : r \in recs})}

\* Python's `x or default`: the default when x is None or zero.
PyOr(opt, zero, dflt) ==
    IF opt = {} THEN dflt
    ELSE LET v == CHOOSE x \in opt : TRUE IN IF v = zero THEN dflt ELSE v

\* Faulty variant: ascending order, so the oldest records come first.
RECURSIVE OrderByCreatedDescLimit_asc(_, _)
OrderByCreatedDescLimit_asc(recs, limit) ==
    IF recs = {} \/ limit <= 0 THEN <<>>
    ELSE LET oldest == CHOOSE r \in recs : \A q \in recs : r.created_at <= q.created_at
         IN  <<oldest>> \o OrderByCreatedDescLimit_asc(recs \ {oldest}, limit - 1)

\* query(StepRecord).order_by(created_at.desc()).limit(limit).all(), limit >= 0
RECURSIVE OrderByCreatedDescLimit(_, _)
OrderByCreatedDescLimit(recs, limit) ==
    IF recs = {} \/ limit <= 0 THEN <<>>
    ELSE LET newest == CHOOSE r \in recs : \A q \in recs : q.created_at <= r.created_at
         IN  <<newest>> \o OrderByCreatedDescLimit(recs \ {newest}, limit - 1)

\* Faulty variant: the filter on the id is left out, so first() is any record.
FindStep_unfiltered(recs, step_id) ==
    IF recs = {} THEN {} ELSE {CHOOSE r \in recs : TRUE}

\* query(StepRecord).filter(StepRecord.id == step_id).first()
FindStep(recs, step_id) == {r \in recs : r.id = step_id}

(* ----------------------------- sessions ------------------------------- *)
ZeroTotals == <<0, Float(0), Float(0)>>

Idle == [pc |-> "idle", steps |-> 0, seen |-> {}, totals |-> ZeroTotals]

(* ------------------------------ Init ---------------------------------- *)
Init ==
    /\ records = {}
    /\ goals = <<>>
    /\ clock = 0
    /\ resp = [op |-> "none", status |-> 0]
    /\ sess = [w \in Workers |-> Idle]

(* ------------------------------ root ---------------------------------- *)
Root ==
    /\ resp' = [op |-> "root", status |-> 200,
                body |-> "Step Counter API is running!"]
    /\ UNCHANGED <<records, goals, clock, sess>>

(* ---------------------------- add_steps ------------------------------- *)
\* Faulty variant: `=` for `+=` on line 70, so the goal holds the last
\* record's calories only.
AddStepsCommitted_assign(recs, gls, clk, steps, seen) ==
    LET dc      == calculate_distance_and_calories(steps)
        db_step == StepRecord(recs, clk + 1, steps, dc[1], dc[2])
        newgls  ==
            IF seen = {}
            THEN Append(gls, WeightGoal(gls, clk + 1, dc[2]))
            ELSE UpdateGoal(gls, (CHOOSE g \in seen : TRUE).id, dc[2])
    IN  [records |-> recs \cup {db_step}, goals |-> newgls, clock |-> clk + 1,
         resp |-> [op |-> "add_steps", status |-> 200, body |-> db_step]]

\* Lines 54-75 once the goal query of line 65 has returned `seen`.
AddStepsCommitted(recs, gls, clk, steps, seen) ==
    LET dc      == calculate_distance_and_calories(steps)
        db_step == StepRecord(recs, clk + 1, steps, dc[1], dc[2])
        newgls  ==
            IF seen = {}
            THEN Append(gls, WeightGoal(gls, clk + 1, FAdd(Float(0), dc[2])))
            ELSE LET weight_goal == CHOOSE g \in seen : TRUE
                 IN  UpdateGoal(gls, weight_goal.id,
                                FAdd(weight_goal.calories_burned_so_far, dc[2]))
    IN  [records |-> recs \cup {db_step}, goals |-> newgls, clock |-> clk + 1,
         resp |-> [op |-> "add_steps", status |-> 200, body |-> db_step]]

AddSteps(steps) ==
    LET out == AddStepsCommitted(records, goals, clock, steps, FirstGoal(goals))
    IN  /\ records' = out.records
        /\ goals' = out.goals
        /\ clock' = out.clock
        /\ resp' = out.resp
        /\ UNCHANGED sess

(* ---------------------------- get_steps ------------------------------- *)
GetSteps(limit) ==
    /\ resp' = [op |-> "get_steps", status |-> 200, limit |-> limit,
                body |-> OrderByCreatedDescLimit(records, limit)]
    /\ UNCHANGED <<records, goals, clock, sess>>

(* --------------------------- get_dashboard ---------------------------- *)
RecentLimit == 5

\* Faulty variant: the distance and calorie sums end up in each other's place.
Totals_swapped(recs) ==
    <<PyOr(SqlSumSteps(recs), 0, 0),
      PyOr(SqlSumCalories(recs), Float(0), Float(0)),
      PyOr(SqlSumDistance(recs), Float(0), Float(0))>>

\* Lines 88-96.
Totals(recs) ==
    <<PyOr(SqlSumSteps(recs), 0, 0),
      PyOr(SqlSumDistance(recs), Float(0), Float(0)),
      PyOr(SqlSumCalories(recs), Float(0), Float(0))>>

\* Line 111.
ProgressPercentage(weight_goal) ==
    FMin(FMul(FDiv(weight_goal.calories_burned_so_far,
                   weight_goal.total_calories_needed), Float(100)),
         Float(100))

\* Faulty variant: the max(..., 0) is left out.
RemainingCalories_unclamped(weight_goal) ==
    FSub(weight_goal.total_calories_needed, weight_goal.calories_burned_so_far)

\* Line 112.
RemainingCalories(weight_goal) ==
    FMax(FSub(weight_goal.total_calories_needed,
              weight_goal.calories_burned_so_far), Float(0))

\* Faulty variant: the assignment of line 107 is left out, so an existing goal
\* keeps its old calories_burned_so_far.
DashboardCommitted_no_update(recs, gls, clk, totals, seen) ==
    LET newgls ==
            IF seen = {}
            THEN Append(gls, WeightGoal(gls, clk, totals[3]))
            ELSE gls
        gid == IF seen = {} THEN Len(gls) + 1 ELSE (CHOOSE g \in seen : TRUE).id
        weight_goal == newgls[CHOOSE i \in DOMAIN newgls : newgls[i].id = gid]
        weight_goal_response ==
            [id |-> weight_goal.id,
             target_weight_loss_kg |-> weight_goal.target_weight_loss_kg,
             total_calories_needed |-> weight_goal.total_calories_needed,
             calories_burned_so_far |-> weight_goal.calories_burned_so_far,
             progress_percentage |-> ProgressPercentage(weight_goal),
             remaining_calories |-> RemainingCalories(weight_goal),
             created_at |-> weight_goal.created_at]
    IN  [goals |-> newgls,
         resp |-> [op |-> "get_dashboard", status |-> 200,
                   body |-> [total_steps |-> totals[1],
                             total_distance_km |-> totals[2],
                             total_calories_burned |-> totals[3],
                             weight_goal |-> weight_goal_response,
                             recent_records |->
                                 OrderByCreatedDescLimit(recs, RecentLimit)]]]

\* Lines 98-133 once the queries of lines 88-99 have returned `totals` and `seen`.
DashboardCommitted(recs, gls, clk, totals, seen) ==
    LET newgls ==
            IF seen = {}
            THEN Append(gls, WeightGoal(gls, clk, totals[3]))
            ELSE UpdateGoal(gls, (CHOOSE g \in seen : TRUE).id, totals[3])
        gid == IF seen = {} THEN Len(gls) + 1 ELSE (CHOOSE g \in seen : TRUE).id
        weight_goal == newgls[CHOOSE i \in DOMAIN newgls : newgls[i].id = gid]
        weight_goal_response ==
            [id |-> weight_goal.id,
             target_weight_loss_kg |-> weight_goal.target_weight_loss_kg,
             total_calories_needed |-> weight_goal.total_calories_needed,
             calories_burned_so_far |-> weight_goal.calories_burned_so_far,
             progress_percentage |-> ProgressPercentage(weight_goal),
             remaining_calories |-> RemainingCalories(weight_goal),
             created_at |-> weight_goal.created_at]
    IN  [goals |-> newgls,
         resp |-> [op |-> "get_dashboard", status |-> 200,
                   body |-> [total_steps |-> totals[1],
                             total_distance_km |-> totals[2],
                             total_calories_burned |-> totals[3],
                             weight_goal |-> weight_goal_response,
                             recent_records |->
                                 OrderByCreatedDescLimit(recs, RecentLimit)]]]

GetDashboard ==
    LET out == DashboardCommitted(records, goals, clock, Totals(records),
                                  FirstGoal(goals))
    IN  /\ goals' = out.goals
        /\ resp' = out.resp
        /\ UNCHANGED <<records, clock, sess>>

(* ------------------------- delete_step_record ------------------------- *)
\* Faulty variant: the delete also takes the record's calories off the goal.
DeleteStepRecord_adjusting_goal(step_id) ==
    LET step_record == FindStep(records, step_id)
    IN  IF step_record = {}
        THEN /\ resp' = [op |-> "delete_step_record", status |-> 404,
                         step_id |-> step_id, body |-> "Step record not found"]
             /\ UNCHANGED <<records, goals, clock, sess>>
        ELSE LET rec == CHOOSE r \in step_record : TRUE
             IN  /\ records' = records \ {rec}
                 /\ goals' = [i \in DOMAIN goals |->
                                 [goals[i] EXCEPT !.calories_burned_so_far =
                                      FSub(@, rec.calories_burned)]]
                 /\ resp' = [op |-> "delete_step_record", status |-> 200,
                             step_id |-> step_id,
                             body |-> "Step record deleted successfully"]
                 /\ UNCHANGED <<clock, sess>>

DeleteStepRecord(step_id) ==
    LET step_record == FindStep(records, step_id)
    IN  IF step_record = {}
        THEN /\ resp' = [op |-> "delete_step_record", status |-> 404,
                         step_id |-> step_id, body |-> "Step record not found"]
             /\ UNCHANGED <<records, goals, clock, sess>>
        ELSE /\ records' = records \ {CHOOSE r \in step_record : TRUE}
             /\ resp' = [op |-> "delete_step_record", status |-> 200,
                         step_id |-> step_id,
                         body |-> "Step record deleted successfully"]
             /\ UNCHANGED <<goals, clock, sess>>

(* ------------------ the conversion called directly -------------------- *)
\* A call calculate_distance_and_calories(steps) waiting to be evaluated, and its return.
InitCalc ==
    /\ records = {}
    /\ goals = <<>>
    /\ clock = 0
    /\ resp \in {[op |-> "call", status |-> 0, steps |-> steps] : steps \in 0..MaxSteps}
    /\ sess = [w \in Workers |-> Idle]

Calculate ==
    /\ resp.op = "call"
    /\ resp' = [op |-> "calculate", status |-> 200, steps |-> resp.steps,
                body |-> calculate_distance_and_calories(resp.steps)]
    /\ UNCHANGED <<records, goals, clock, sess>>

(* ------------- requests of two workers, query then commit ------------- *)
\* add_steps up to the goal query of line 65.
AddStepsQuery(w, steps) ==
    /\ sess[w].pc = "idle"
    /\ sess' = [sess EXCEPT ![w] = [pc |-> "add_steps", steps |-> steps,
                                    seen |-> FirstGoal(goals),
                                    totals |-> ZeroTotals]]
    /\ UNCHANGED <<records, goals, clock, resp>>

\* add_steps from line 66 to its return.
AddStepsCommit(w) ==
    LET out == AddStepsCommitted(records, goals, clock, sess[w].steps, sess[w].seen)
    IN  /\ sess[w].pc = "add_steps"
        /\ records' = out.records
        /\ goals' = out.goals
        /\ clock' = out.clock
        /\ resp' = out.resp
        /\ sess' = [sess EXCEPT ![w] = Idle]

\* get_dashboard up to the goal query of line 99.
DashboardQuery(w) ==
    /\ sess[w].pc = "idle"
    /\ sess' = [sess EXCEPT ![w] = [pc |-> "get_dashboard", steps |-> 0,
                                    seen |-> FirstGoal(goals),
                                    totals |-> Totals(records)]]
    /\ UNCHANGED <<records, goals, clock, resp>>

\* get_dashboard from line 100 to its return.
DashboardCommit(w) ==
    LET out == DashboardCommitted(records, goals, clock, sess[w].totals, sess[w].seen)
    IN  /\ sess[w].pc = "get_dashboard"
        /\ goals' = out.goals
        /\ resp' = out.resp
        /\ sess' = [sess EXCEPT ![w] = Idle]
        /\ UNCHANGED <<records, clock>>

Pending == Cardinality({w \in Workers : sess[w].pc = "add_steps"})

(* ------------------------- specifications ----------------------------- *)
StepIds == 1..(MaxClock + 1)
ConcIds == 1..MaxConcAdds
RowIds == 1..(MaxRows + 1)
Limits == 0..MaxLimit

Next ==
    \/ Root
    \/ \E steps \in StepInputs : clock < MaxClock /\ AddSteps(steps)
    \/ \E limit \in Limits : GetSteps(limit)
    \/ GetDashboard
    \/ \E step_id \in StepIds : DeleteStepRecord(step_id)

Spec == Init /\ [][Next]_vars

\* add_steps and get_dashboard only: no record is ever deleted.
NextNoDelete ==
    \/ \E steps \in StepInputs : clock < MaxClock /\ AddSteps(steps)
    \/ GetDashboard

SpecNoDelete == Init /\ [][NextNoDelete]_vars

\* Enough rows for both limits (get_steps' and the dashboard's 5) to cut the list.
NextList ==
    \/ \E steps \in ListInputs : clock < MaxRows /\ AddSteps(steps)
    \/ \E limit \in Limits : GetSteps(limit)
    \/ GetDashboard
    \/ \E step_id \in RowIds : DeleteStepRecord(step_id)

SpecList == Init /\ [][NextList]_vars

\* The conversion function alone, over 0..MaxSteps.
NextCalc == Calculate

SpecCalc == InitCalc /\ [][NextCalc]_vars

\* Two workers whose requests interleave between query and commit.
NextConc ==
    \/ \E w \in Workers, steps \in ConcInputs :
           clock + Pending < MaxConcAdds /\ AddStepsQuery(w, steps)
    \/ \E w \in Workers : AddStepsCommit(w)
    \/ \E w \in Workers : DashboardQuery(w)
    \/ \E w \in Workers : DashboardCommit(w)
    \/ \E step_id \in ConcIds : DeleteStepRecord(step_id)

SpecConc == Init /\ [][NextConc]_vars

(* ======================================================================= *)
(* Properties                                                              *)
(* ======================================================================= *)

\* steps * num / den as a fraction in lowest terms.
Scaled(steps, num, den) ==
    LET g == GCD(Abs(steps), den) IN Norm((steps \div g) * num, den \div g)

\* 0.762 / 1000 = 381/500000 km per step; 0.10668 = 2667/25000 kcal per step.
ExpectedDistance(steps) == Scaled(steps, 381, 500000)
ExpectedCalories(steps) == Scaled(steps, 2667, 25000)

Stamps(recs) == {r.created_at : r \in recs}

RECURSIVE StepsUpTo(_, _)
StepsUpTo(recs, k) ==
    IF k = 0 THEN 0
    ELSE StepsUpTo(recs, k - 1)
         + (IF k \in Stamps(recs)
            THEN (CHOOSE r \in recs : r.created_at = k).steps ELSE 0)

RECURSIVE StoredCaloriesUpTo(_, _)
StoredCaloriesUpTo(recs, k) ==
    IF k = 0 THEN Float(0)
    ELSE FAdd(StoredCaloriesUpTo(recs, k - 1),
              IF k \in Stamps(recs)
              THEN (CHOOSE r \in recs : r.created_at = k).calories_burned
              ELSE Float(0))

StoredCalories == StoredCaloriesUpTo(records, clock)

(* ------------------------------- C1 ----------------------------------- *)
\* C1: for every non-negative steps s the conversion returns
\* distance_km = s * 0.762 / 1000 and calories_burned = s * 0.10668;
\* s = 0 gives (0, 0) and s = 10000 gives (7.62, 1066.8).
C1_Conversion ==
    resp.op = "calculate" =>
        /\ resp.body[1] = ExpectedDistance(resp.steps)
        /\ resp.body[2] = ExpectedCalories(resp.steps)
        /\ resp.steps = 0 => resp.body = <<<<0, 1>>, <<0, 1>>>>
        /\ resp.steps = 10000 => resp.body = <<<<381, 50>>, <<5334, 5>>>>

C1_Witness == resp.op = "calculate" /\ resp.steps = 10000

(* ------------------------------- C2 ----------------------------------- *)
\* C2: with no delete, the dashboard totals are the sums over all added step
\* counts: total_steps = s1+...+sn, total_distance_km = sum of distance(si),
\* total_calories_burned = sum of calories(si); with no records 0, 0.0, 0.0.
C2_DashboardTotals ==
    resp.op = "get_dashboard" =>
        LET total == StepsUpTo(records, clock)
        IN  /\ Cardinality(records) = clock
            /\ resp.body.total_steps = total
            /\ resp.body.total_distance_km = ExpectedDistance(total)
            /\ resp.body.total_calories_burned = ExpectedCalories(total)
            /\ records = {} =>
                   /\ resp.body.total_steps = 0
                   /\ resp.body.total_distance_km = <<0, 1>>
                   /\ resp.body.total_calories_burned = <<0, 1>>

C2_Witness ==
    /\ resp.op = "get_dashboard"
    /\ \E r1, r2 \in records : r1.steps = 10000 /\ r2.steps = 400000
    /\ resp.body.total_steps = 410000

(* ------------------------------- C3 ----------------------------------- *)
\* C3: in every get_dashboard response progress_percentage lies in [0, 100],
\* whatever integer step counts were added.
C3_ProgressInRange ==
    resp.op = "get_dashboard" =>
        /\ FLeq(Float(0), resp.body.weight_goal.progress_percentage)
        /\ FLeq(resp.body.weight_goal.progress_percentage, Float(100))

(* ------------------------------- C4 ----------------------------------- *)
\* C4: in every get_dashboard response remaining_calories is
\* max(total_calories_needed - calories_burned_so_far, 0), hence never negative.
C4_RemainingClamped ==
    resp.op = "get_dashboard" =>
        LET g == resp.body.weight_goal
        IN  /\ FLeq(g.calories_burned_so_far, g.total_calories_needed) =>
                   FAdd(g.remaining_calories, g.calories_burned_so_far)
                       = g.total_calories_needed
            /\ ~FLeq(g.calories_burned_so_far, g.total_calories_needed) =>
                   g.remaining_calories = <<0, 1>>
            /\ g.remaining_calories[1] >= 0

C4_Witness ==
    /\ resp.op = "get_dashboard"
    /\ ~FLeq(resp.body.weight_goal.calories_burned_so_far,
             resp.body.weight_goal.total_calories_needed)
    /\ resp.body.weight_goal.remaining_calories = <<0, 1>>

(* ------------------------------- C5 ----------------------------------- *)
\* C5: delete_step_record with an id that matches no record answers 404 and
\* leaves every StepRecord and the WeightGoal row as they were.
C5_DeleteMissing ==
    [][(/\ resp'.op = "delete_step_record"
        /\ ~\E r \in records : r.id = resp'.step_id)
       => /\ resp'.status = 404
          /\ records' = records
          /\ goals' = goals]_vars

C5_Witness ==
    /\ resp.op = "delete_step_record"
    /\ resp.status = 404
    /\ records # {}
    /\ goals # <<>>

(* ------------------------------- C6 ----------------------------------- *)
\* C6: delete_step_record with the id of an existing record removes exactly
\* that record; every other record and the WeightGoal (calories_burned_so_far
\* included) stay as they were.
C6_DeleteExisting ==
    [][(/\ resp'.op = "delete_step_record"
        /\ \E r \in records : r.id = resp'.step_id)
       => /\ resp'.status = 200
          /\ records' = {r \in records : r.id # resp'.step_id}
          /\ Cardinality(records') = Cardinality(records) - 1
          /\ goals' = goals]_vars

C6_Witness ==
    /\ resp.op = "delete_step_record"
    /\ resp.status = 200
    /\ records # {}
    /\ goals # <<>>
    /\ goals[1].calories_burned_so_far # StoredCalories

(* ------------------------------- C7 ----------------------------------- *)
\* C7: right after get_dashboard the stored calories_burned_so_far, the
\* response's calories_burned_so_far and its total_calories_burned all equal
\* the sum of calories_burned over the records now in the store.
C7_DashboardResyncs ==
    resp.op = "get_dashboard" =>
        /\ Len(goals) = 1
        /\ goals[1].calories_burned_so_far = StoredCalories
        /\ resp.body.weight_goal.calories_burned_so_far = StoredCalories
        /\ resp.body.total_calories_burned = StoredCalories

C7_Witness ==
    /\ resp.op = "get_dashboard"
    /\ records # {}
    /\ Cardinality(records) < clock
    /\ StoredCalories # <<0, 1>>

(* ------------------------------- C8 ----------------------------------- *)
\* A list holds the n newest records of the store, newest first.
NewestFirst(list, n) ==
    /\ Len(list) = (IF n <= Cardinality(records) THEN n ELSE Cardinality(records))
    /\ \A i \in DOMAIN list : list[i] \in records
    /\ \A i, j \in DOMAIN list : i < j => list[i].created_at > list[j].created_at
    /\ \A r \in records :
           (\A i \in DOMAIN list : list[i] # r) =>
               \A i \in DOMAIN list : r.created_at < list[i].created_at

\* C8: get_steps(limit), limit >= 0, returns min(limit, remaining records)
\* records, the most recently created ones, newest first; the dashboard's
\* recent_records is that list for limit 5.
C8_RecentOrder ==
    /\ resp.op = "get_steps" => NewestFirst(resp.body, resp.limit)
    /\ resp.op = "get_dashboard" => NewestFirst(resp.body.recent_records, 5)

C8_Witness ==
    /\ resp.op = "get_steps"
    /\ resp.limit = 2
    /\ Cardinality(records) = 3
    /\ Cardinality(records) < clock
    /\ Len(resp.body) = 2

(* ------------------------------- C9 ----------------------------------- *)
C9_GoalInSync ==
    goals # <<>> => /\ Len(goals) = 1
                    /\ goals[1].calories_burned_so_far = StoredCalories

C9_AddEffect ==
    clock' # clock =>
        LET new == resp'.body
        IN  /\ resp'.op = "add_steps"
            /\ new \notin records
            /\ \A r \in records : r.id # new.id
            /\ records' = records \cup {new}
            /\ new.distance_km = ExpectedDistance(new.steps)
            /\ new.calories_burned = ExpectedCalories(new.steps)
            /\ Len(goals') = 1
            /\ goals'[1].target_weight_loss_kg = Float(default_target_weight_loss_kg)
            /\ goals'[1].total_calories_needed = Float(default_total_calories_needed)
            /\ goals'[1].calories_burned_so_far =
                   FAdd(IF goals = <<>> THEN Float(0)
                        ELSE goals[1].calories_burned_so_far,
                        ExpectedCalories(new.steps))
            /\ goals # <<>> =>
                   goals' = [goals EXCEPT ![1].calories_burned_so_far =
                                 goals'[1].calories_burned_so_far]

\* C9: add_steps(s) inserts exactly one new record (fresh id, converted
\* distance and calories) and raises the goal's calories_burned_so_far by
\* calories(s), creating the goal with defaults if there is none; so with
\* add_steps and get_dashboard only, an existing goal's calories_burned_so_far
\* always equals the sum of calories_burned over all records.
C9_AddKeepsGoalInSync == [](C9_GoalInSync) /\ [][C9_AddEffect]_vars

C9_Witness ==
    /\ resp.op = "add_steps"
    /\ Cardinality(records) >= 2
    /\ goals # <<>>
    /\ goals[1].calories_burned_so_far # <<0, 1>>

(* ------------------------------- C10 ---------------------------------- *)
\* C10: at most one WeightGoal row exists in every reachable state, exactly
\* one once an add_steps or get_dashboard has completed, also when the
\* fetch-or-create steps of two requests interleave.
C10_SingleGoal ==
    /\ Len(goals) <= 1
    /\ resp.op \in {"add_steps", "get_dashboard"} => Len(goals) = 1

====
